---------------------------- MODULE Spec2Model ----------------------------
(***************************************************************************)
(* Model of the Game of Life engine in src/life/src/game/mod.rs:           *)
(* GameState (threaded build, feature "native_threads"), its background    *)
(* worker thread, the deferred input queue, the auto-play timer and the    *)
(* grid step rule.                                                         *)
(*                                                                         *)
(* The orchestrating (UI) thread runs one GameState method at a time; a    *)
(* method is split into one action per access to the state it shares with  *)
(* the worker (the `computing` atomic, the notification mutex, the         *)
(* channel), so that the worker's steps interleave exactly where the two   *)
(* threads can interleave.  Purely local statements are part of the action *)
(* of the shared access they follow.                                       *)
(*                                                                         *)
(* Option<T> is modelled as a sequence: None is <<>> and Some(v) is <<v>>. *)
(* Time is counted in ticks; one tick stands for DEFAULT_INTERVAL.  An      *)
(* Instant is modelled by the time elapsed since it was taken, which is    *)
(* the only way the code reads it, and which stops growing once it has     *)
(* reached the interval it is compared with.                               *)
(***************************************************************************)
EXTENDS Integers, Sequences, FiniteSets, TLC

\* ------------------------------------------------------------------ bounds
\* Largest length of the deferred input queue.
MaxQueue == 2
\* Largest number of generations in flight or committed since the last clear.
MaxSteps == 2
\* Largest number of manual toggles recorded or queued since the last clear.
MaxToggles == 2
\* Largest column of a cell of a loaded pattern (the smallest is 0).
MaxCoord == 2
\* most living cells of a pattern whose iteration orders are all tried
MaxVisited == 3

\* --------------------------------------------------------------- constants
\* const DEFAULT_INTERVAL, in ticks.
DEFAULT_INTERVAL == 1

None == <<>>
Some(v) == <<v>>

\* The cells the player clicks on.
ClickCells == { <<0, 0>> }

\* ------------------------------------------------------------------- state
VARIABLES
    \* GameState fields
    living_cells,          \* set of coordinates
    loop_state,            \* [playing, elapsed]: elapsed is last_update.elapsed()
    interval,              \* auto-play interval in ticks
    input_queue,           \* sequence of QueueAction
    living_cell_count,
    step_count,
    living_count_history,
    changes,               \* StateChanges: [grid_size, cells, offset] of options
    toggle_record,
    pan_position,
    grid_size,
    \* SharedThreadData and the channel
    notification,          \* StepThreadNotification: [type, data]
    lock_holder,           \* who holds the notification mutex: "none" or "worker"
    computing,             \* the AtomicBool
    chan,                  \* the mpsc channel: results sent and not yet received
    \* control
    opc,                   \* where the orchestrating thread is
    op,                    \* the method that called step()
    wpc,                   \* where the worker thread is
    \* history variables (not read by any action's guard or program update)
    h_dispatch,            \* Compute requests stored since the last quiescent commit
    h_ideal,               \* LiveSet if the one dispatch commits and the inputs
                           \* made since are replayed on its result
    applied_log,           \* QueueActions the last drain applied, in order
    \* the synchronous build run side by side (strategy equivalence only)
    s_game                 \* the GameState of the build without native_threads

gvars == <<living_cells, living_cell_count, step_count, living_count_history,
           changes, toggle_record, pan_position, grid_size>>
tvars == <<notification, lock_holder, computing, chan>>
hvars == <<h_dispatch, h_ideal, applied_log>>
svars == <<s_game>>
vars == <<living_cells, loop_state, interval, input_queue, living_cell_count,
          step_count, living_count_history, changes, toggle_record,
          pan_position, grid_size, notification, lock_holder, computing, chan,
          opc, op, wpc, h_dispatch, h_ideal, applied_log, s_game>>

\* ---------------------------------------------------------- grid step rule
\* Mutant of get_adjacent: the last place repeats the one before it.
get_adjacent_repeated(coords) ==
    << <<coords[1] - 1, coords[2] - 1>>,
       <<coords[1] - 1, coords[2] + 1>>,
       <<coords[1] - 1, coords[2]>>,
       <<coords[1], coords[2] - 1>>,
       <<coords[1], coords[2] + 1>>,
       <<coords[1] + 1, coords[2]>>,
       <<coords[1] + 1, coords[2] - 1>>,
       <<coords[1] + 1, coords[2] - 1>> >>

\* get_adjacent: the array of the 8 neighbours, in the order of the source.
get_adjacent(coords) ==
    << <<coords[1] - 1, coords[2] - 1>>,
       <<coords[1] - 1, coords[2] + 1>>,
       <<coords[1] - 1, coords[2]>>,
       <<coords[1], coords[2] - 1>>,
       <<coords[1], coords[2] + 1>>,
       <<coords[1] + 1, coords[2]>>,
       <<coords[1] + 1, coords[2] - 1>>,
       <<coords[1] + 1, coords[2] + 1>> >>

\* adjacency_rec when the two loops `for i in prev.iter()` and
\* `for j in get_adjacent(i)` have run: a key for every coordinate the loops
\* met, holding the number of times they met it (inserted as 1 by the first
\* visit, incremented by each later one), that is, the number of pairs of a
\* living cell i and a place k with get_adjacent(i)[k] equal to the key.
\* `met` holds what the inner loop meets: <<i, k, get_adjacent(i)[k]>>.
adjacency_rec(prev) ==
    LET met == { <<i, k, get_adjacent(i)[k]>> : i \in prev, k \in 1..8 }
    IN  [j \in { m[3] : m \in met } |->
            Cardinality({ m \in met : m[3] = j })]

\* Mutant of alive_rules: a cell with two neighbours never survives.
alive_rules_birth_only(count, prev, coords) ==
    3 = count

alive_rules(count, prev, coords) ==
    3 = count \/ (2 = count /\ coords \in prev)

compute_step(prev) ==
    LET rec == adjacency_rec(prev)
    IN  { coords \in DOMAIN rec : alive_rules(rec[coords], prev, coords) }

\* ------------------------------------------------------------ rendering
\* to_cell: the centre of the cell's square, cell * grid_size + grid_size / 2,
\* kept as twice its value so that it stays an integer.
to_cell(cell, gs) == <<(2 * cell[1] + 1) * gs, (2 * cell[2] + 1) * gs>>

\* get_cells of a game record: the render cells of the living cells.
get_cells(g) == { to_cell(c, g.grid_size) : c \in g.living_cells }

\* ------------------------------------------------------------ save games
\* The save games the player loads: living cells and view parameters.
Saves ==
    { [living_cells |-> { <<0, 0>>, <<1, 0>>, <<0, 1>> },
       pan_position |-> <<1, 0>>,
       grid_size |-> 2] }
NoSave == [living_cells |-> {}, pan_position |-> <<0, 0>>, grid_size |-> 0]

\* --------------------------------------------------------- queue actions
QClear == [type |-> "Clear", cell |-> <<0, 0>>, save |-> NoSave]
QToggle(c) == [type |-> "Toggle", cell |-> c, save |-> NoSave]
QLoad(save) == [type |-> "Load", cell |-> <<0, 0>>, save |-> save]

\* ------------------------------------------- the synchronous action handlers
\* The fields of GameState the handlers read and write, as one record.
Game ==
    [living_cells |-> living_cells,
     living_cell_count |-> living_cell_count,
     step_count |-> step_count,
     living_count_history |-> living_count_history,
     changes |-> changes,
     toggle_record |-> toggle_record,
     pan_position |-> pan_position,
     grid_size |-> grid_size]

\* get_living_count: the stored count is returned.
get_living_count(g) == g.living_cell_count

SetGame(g) ==
    /\ living_cells' = g.living_cells
    /\ living_cell_count' = g.living_cell_count
    /\ step_count' = g.step_count
    /\ living_count_history' = g.living_count_history
    /\ changes' = g.changes
    /\ toggle_record' = g.toggle_record
    /\ pan_position' = g.pan_position
    /\ grid_size' = g.grid_size

\* Mutant of clear_action: the population history is not reset.
clear_action_keeps_history(g) ==
    [g EXCEPT !.living_cells = {},
              !.step_count = 0,
              !.living_cell_count = 0,
              !.changes = [g.changes EXCEPT !.cells = Some({})],
              !.toggle_record = <<>>]

\* Mutant of clear_action: the changes are replaced by the empty cell list alone.
clear_action_fresh_changes(g) ==
    [g EXCEPT !.living_cells = {},
              !.step_count = 0,
              !.living_count_history = <<0>>,
              !.living_cell_count = 0,
              !.changes = [grid_size |-> None, cells |-> Some({}), offset |-> None],
              !.toggle_record = <<>>]

clear_action(g) ==
    [g EXCEPT !.living_cells = {},
              !.step_count = 0,
              !.living_count_history = <<0>>,
              !.living_cell_count = 0,
              !.changes = [g.changes EXCEPT !.cells = Some({})],
              !.toggle_record = <<>>]

\* Mutant of left_action: the cell is inserted, never removed.
left_action_insert_only(g, cell_pos) ==
    LET g1 == [g EXCEPT !.living_cells = g.living_cells \cup {cell_pos}]
    IN  [g1 EXCEPT !.toggle_record = Append(g.toggle_record, g.step_count),
                   !.changes = [g.changes EXCEPT !.cells = Some(get_cells(g1))]]

\* Mutant of left_action: the toggle is stamped with the generation to come.
left_action_stamps_next(g, cell_pos) ==
    LET g1 == [g EXCEPT !.living_cells =
                   IF cell_pos \in g.living_cells
                   THEN g.living_cells \ {cell_pos}
                   ELSE g.living_cells \cup {cell_pos}]
    IN  [g1 EXCEPT !.toggle_record = Append(g.toggle_record, g.step_count + 1),
                   !.changes = [g.changes EXCEPT !.cells = Some(get_cells(g1))]]

left_action(g, cell_pos) ==
    LET g1 == [g EXCEPT !.living_cells =
                   IF cell_pos \in g.living_cells
                   THEN g.living_cells \ {cell_pos}
                   ELSE g.living_cells \cup {cell_pos}]
    IN  [g1 EXCEPT !.toggle_record = Append(g.toggle_record, g.step_count),
                   !.changes = [g.changes EXCEPT !.cells = Some(get_cells(g1))]]

\* Mutant of load_action: the save is installed without clear_action.
load_action_keeps_counters(g, save) ==
    LET g2 == [g EXCEPT !.living_cells = save.living_cells,
                        !.pan_position = save.pan_position,
                        !.grid_size = save.grid_size]
    IN  [g2 EXCEPT !.changes = [grid_size |-> Some(g2.grid_size),
                                cells |-> Some(get_cells(g2)),
                                offset |-> Some(g2.pan_position)]]

load_action(g, save) ==
    LET g1 == clear_action(g)
        g2 == [g1 EXCEPT !.living_cells = save.living_cells,
                         !.pan_position = save.pan_position,
                         !.grid_size = save.grid_size]
    IN  [g2 EXCEPT !.changes = [grid_size |-> Some(g2.grid_size),
                                cells |-> Some(get_cells(g2)),
                                offset |-> Some(g2.pan_position)]]

\* Mutant of ApplyAction: a queued toggle changes the cell without a record.
ApplyActionUnrecorded(g, i) ==
    CASE i.type = "Clear" -> clear_action(g)
      [] i.type = "Toggle" ->
            [left_action(g, i.cell) EXCEPT !.toggle_record = g.toggle_record]
      [] i.type = "Load" -> load_action(g, i.save)

\* One arm of the match in resolve_queue.
ApplyAction(g, i) ==
    CASE i.type = "Clear" -> clear_action(g)
      [] i.type = "Toggle" -> left_action(g, i.cell)
      [] i.type = "Load" -> load_action(g, i.save)

\* Mutant of resolve_queue: `if let` for `while let`, one action is popped.
resolve_queue_once(g, queue, log) ==
    IF queue = <<>> THEN [game |-> g, queue |-> queue, log |-> log]
    ELSE [game |-> ApplyAction(g, Head(queue)), queue |-> Tail(queue),
          log |-> Append(log, Head(queue))]

\* resolve_queue: `while let Some(i) = self.input_queue.pop_front()`.  Returns
\* the game record, what is left of the queue and the actions applied, in the
\* order they were applied.
RECURSIVE resolve_queue(_, _, _)
resolve_queue(g, queue, log) ==
    IF queue = <<>> THEN [game |-> g, queue |-> queue, log |-> log]
    ELSE LET i == Head(queue)
         IN  resolve_queue(ApplyAction(g, i), Tail(queue), Append(log, i))

\* Mutant of sync_step: the generation is installed and counted, the
\* population history is not pushed.
sync_step_no_history(g) ==
    LET g1 == [g EXCEPT !.living_cells = compute_step(g.living_cells)]
    IN  [g1 EXCEPT !.changes = [g1.changes EXCEPT !.cells = Some(get_cells(g1))],
                   !.step_count = g1.step_count + 1,
                   !.living_cell_count = Cardinality(g1.living_cells)]

\* ----------------------------------------- the build without native_threads
\* step(): the next generation is computed in place and counted.
sync_step(g) ==
    LET g1 == [g EXCEPT !.living_cells = compute_step(g.living_cells)]
        g2 == [g1 EXCEPT !.changes = [g1.changes EXCEPT !.cells = Some(get_cells(g1))],
                         !.step_count = g1.step_count + 1,
                         !.living_cell_count = Cardinality(g1.living_cells)]
    IN  [g2 EXCEPT !.living_count_history =
                       Append(g2.living_count_history, g2.living_cell_count)]

\* clear(): living_cells.clear() and the cell list marked changed.
sync_clear(g) ==
    [g EXCEPT !.living_cells = {},
              !.changes = [g.changes EXCEPT !.cells = Some({})]]

\* load_save(save)
sync_load_save(g, save) == load_action(g, save)

\* handle_left on the cell find_cell_num gives for the click.
sync_handle_left(g, cell_pos) == left_action(g, cell_pos)

\* ------------------------------------------------------- shared-state helpers
Waiting == [type |-> "Waiting", data |-> {}]
Exit == [type |-> "Exit", data |-> {}]
Compute(data) == [type |-> "Compute", data |-> data]

\* The computations outstanding: a stored Compute request the worker has not
\* finished with (at "sent" the worker still holds the mutex over the request
\* whose result it has already sent), plus the results in the channel.
Outstanding ==
    Len(chan) + (IF notification.type = "Compute" /\ wpc # "sent" THEN 1 ELSE 0)

\* Between operations, with nothing dispatched and nothing to commit.
Quiescent == opc = "idle" /\ Outstanding = 0

\* Mutant of NotifyAll: the notification wakes nobody.
NotifyNone == wpc

\* Condvar::notify_all: a worker blocked in wait is woken.
NotifyAll == IF wpc = "waiting" THEN "woken" ELSE wpc

\* LoopState::update: [due, state], the value returned and the state left.
Stopped == [playing |-> FALSE, elapsed |-> 0]
\* Playing { last_update: Instant::now() }
PlayingNow == [playing |-> TRUE, elapsed |-> 0]

\* Mutant of LoopStateUpdate: a step is due only after more than the interval.
LoopStateUpdateStrict(ls, iv) ==
    IF ls.playing /\ ls.elapsed > iv
    THEN [due |-> TRUE, state |-> PlayingNow]
    ELSE [due |-> FALSE, state |-> ls]

LoopStateUpdate(ls, iv) ==
    IF ls.playing
    THEN IF ls.elapsed >= iv
         THEN [due |-> TRUE, state |-> PlayingNow]
         ELSE [due |-> FALSE, state |-> ls]
    ELSE [due |-> FALSE, state |-> ls]

\* update() of the build without native_threads: the game, the queue and the
\* timer it leaves.
sync_update(g, ls, iv, queue) ==
    LET r == LoopStateUpdate(ls, iv)
        g1 == IF r.due THEN sync_step(g) ELSE g
        q == resolve_queue(g1, queue, <<>>)
    IN  [game |-> [q.game EXCEPT !.changes =
                      [grid_size |-> None, cells |-> None, offset |-> None]],
         queue |-> q.queue,
         loop_state |-> r.state]

\* Model bound: another generation may be requested.
CanDispatch == step_count + Outstanding < MaxSteps

QueuedToggles == Cardinality({ k \in 1..Len(input_queue) : input_queue[k].type = "Toggle" })
CanToggle == Len(toggle_record) + QueuedToggles < MaxToggles

\* The effect of an input on a LiveSet (history only).
InputEffect(i, cells) ==
    CASE i.type = "Clear" -> {}
      [] i.type = "Toggle" -> IF i.cell \in cells THEN cells \ {i.cell}
                              ELSE cells \cup {i.cell}
      [] i.type = "Load" -> i.save.living_cells

NoteInput(i) ==
    /\ h_ideal' = IF h_dispatch = 1 THEN InputEffect(i, h_ideal) ELSE h_ideal
    /\ UNCHANGED <<h_dispatch, applied_log>>

\* ---------------------------------------------------------------- Init
\* The fields GameState::new gives a game (the same in both builds).
NewGame ==
    [living_cells |-> {},
     living_cell_count |-> 0,
     step_count |-> 0,
     living_count_history |-> <<0>>,
     changes |-> [grid_size |-> None, cells |-> None, offset |-> None],
     toggle_record |-> <<>>,
     pan_position |-> <<0, 0>>,
     grid_size |-> 1]

Init ==
    /\ living_cells = {}
    /\ loop_state = Stopped
    /\ interval = DEFAULT_INTERVAL
    /\ input_queue = <<>>
    /\ living_cell_count = 0
    /\ step_count = 0
    /\ living_count_history = <<0>>
    /\ changes = [grid_size |-> None, cells |-> None, offset |-> None]
    /\ toggle_record = <<>>
    /\ pan_position = <<0, 0>>
    /\ grid_size = 1
    /\ notification = Waiting
    /\ lock_holder = "none"
    /\ computing = FALSE
    /\ chan = <<>>
    /\ opc = "idle"
    /\ op = "none"
    /\ wpc = "start"
    /\ h_dispatch = 0
    /\ h_ideal = {}
    /\ applied_log = <<>>
    /\ s_game = NewGame

\* ------------------------------------------------------------ the worker
\* lock.lock() and cvar.wait(guard): the mutex is taken and released again as
\* the thread blocks on the condition variable.
WorkerWait ==
    /\ wpc = "start"
    /\ lock_holder = "none"
    /\ wpc' = "waiting"
    /\ UNCHANGED <<gvars, tvars, hvars, loop_state, interval, s_game,
                   input_queue, opc, op>>

\* Condvar::wait may return without a notification.
WorkerSpuriousWake ==
    /\ wpc = "waiting"
    /\ wpc' = "woken"
    /\ UNCHANGED <<gvars, tvars, hvars, loop_state, interval, s_game,
                   input_queue, opc, op>>

\* Mutant of WorkerMatch: the Waiting arm computes like the Compute arm.
WorkerMatchComputesOnWaiting ==
    /\ wpc = "woken"
    /\ lock_holder = "none"
    /\ CASE notification.type = "Exit" ->
              wpc' = "exited" /\ lock_holder' = "none"
         [] OTHER ->
              wpc' = "set_flag" /\ lock_holder' = "worker"
    /\ UNCHANGED <<gvars, hvars, notification, computing, chan, loop_state,
                   interval, s_game, input_queue, opc, op>>

\* wait re-acquires the mutex and the thread matches on the notification.
WorkerMatch ==
    /\ wpc = "woken"
    /\ lock_holder = "none"
    /\ CASE notification.type = "Exit" ->
              wpc' = "exited" /\ lock_holder' = "none"
         [] notification.type = "Waiting" ->
              wpc' = "start" /\ lock_holder' = "none"
         [] notification.type = "Compute" ->
              wpc' = "set_flag" /\ lock_holder' = "worker"
    /\ UNCHANGED <<gvars, hvars, notification, computing, chan, loop_state,
                   interval, s_game, input_queue, opc, op>>

\* thread_data.computing.store(true)
WorkerSetComputing ==
    /\ wpc = "set_flag"
    /\ computing' = TRUE
    /\ wpc' = "compute"
    /\ UNCHANGED <<gvars, hvars, notification, lock_holder, chan, loop_state,
                   interval, s_game, input_queue, opc, op>>

\* tx.send(compute_step(data))
WorkerCompute ==
    /\ wpc = "compute"
    /\ chan' = Append(chan, compute_step(notification.data))
    /\ wpc' = "sent"
    /\ UNCHANGED <<gvars, hvars, notification, lock_holder, computing, loop_state,
                   interval, s_game, input_queue, opc, op>>

\* *data_guard = STN::Waiting, and the guard is dropped as the iteration ends.
WorkerFinish ==
    /\ wpc = "sent"
    /\ notification' = Waiting
    /\ lock_holder' = "none"
    /\ wpc' = "start"
    /\ UNCHANGED <<gvars, hvars, computing, chan, loop_state, interval, s_game,
                   input_queue, opc, op>>

Worker ==
    \/ WorkerWait
    \/ WorkerSpuriousWake
    \/ WorkerMatch
    \/ WorkerSetComputing
    \/ WorkerCompute
    \/ WorkerFinish

\* ------------------------------------------------- the orchestrating thread
\* What follows the call of step() in the method that made it.
AfterStep ==
    CASE op = "step" ->
            opc' = "idle" /\ op' = "none" /\ UNCHANGED loop_state
      [] op = "toggle_playing" ->
            opc' = "idle" /\ op' = "none" /\ loop_state' = PlayingNow
      [] op = "update" ->
            opc' = "update_recv" /\ UNCHANGED <<op, loop_state>>

\* The Tab key: handle_window_event calls step().
StepCallOp ==
    /\ opc = "idle"
    /\ computing \/ CanDispatch
    /\ opc' = "step_check"
    /\ op' = "step"
    /\ UNCHANGED <<gvars, tvars, hvars, loop_state, interval, input_queue, wpc>>

StepCall == StepCallOp /\ UNCHANGED svars

\* Mutant of TogglePlaying: playing starts without the call of step().
TogglePlayingNoStep ==
    /\ opc = "idle"
    /\ loop_state' = IF loop_state.playing THEN Stopped ELSE PlayingNow
    /\ UNCHANGED <<gvars, tvars, hvars, interval, s_game, input_queue, opc, op, wpc>>

\* toggle_playing: stop, or call step() and then start playing.
TogglePlaying ==
    /\ opc = "idle"
    /\ IF loop_state.playing
       THEN /\ loop_state' = Stopped
            /\ UNCHANGED <<opc, op>>
       ELSE /\ computing \/ CanDispatch
            /\ opc' = "step_check"
            /\ op' = "toggle_playing"
            /\ UNCHANGED loop_state
    /\ UNCHANGED <<gvars, tvars, hvars, interval, s_game, input_queue, wpc>>

\* step(): the load of `computing` and the early return.
StepCheck ==
    /\ opc = "step_check"
    /\ IF computing
       THEN AfterStep
       ELSE opc' = "step_lock" /\ UNCHANGED <<op, loop_state>>
    /\ UNCHANGED <<gvars, tvars, hvars, interval, s_game, input_queue, wpc>>

\* Mutant of StepStore: the generation is counted when it is requested.
StepStoreCounts ==
    /\ opc = "step_lock"
    /\ lock_holder = "none"
    /\ notification' = Compute(living_cells)
    /\ wpc' = NotifyAll
    /\ AfterStep
    /\ step_count' = step_count + 1
    /\ h_dispatch' = IF h_dispatch = 0 /\ Outstanding = 0 THEN 1 ELSE 2
    /\ h_ideal' = IF h_dispatch = 0 /\ Outstanding = 0
                  THEN compute_step(living_cells) ELSE {}
    /\ UNCHANGED <<living_cells, living_cell_count, living_count_history, changes,
                   toggle_record, pan_position, grid_size, lock_holder, computing,
                   chan, applied_log, interval, s_game, input_queue>>

\* step(): the mutex is taken, Compute(living_cells.clone()) stored, the
\* condition variable notified, and the guard dropped on return.
StepStore ==
    /\ opc = "step_lock"
    /\ lock_holder = "none"
    /\ notification' = Compute(living_cells)
    /\ wpc' = NotifyAll
    /\ AfterStep
    /\ h_dispatch' = IF h_dispatch = 0 /\ Outstanding = 0 THEN 1 ELSE 2
    /\ h_ideal' = IF h_dispatch = 0 /\ Outstanding = 0
                  THEN compute_step(living_cells) ELSE {}
    /\ UNCHANGED <<gvars, lock_holder, computing, chan, applied_log, interval, s_game,
                   input_queue>>

\* Mutant of Clear: the action is queued whatever `computing` reads.
ClearAlwaysDeferred ==
    /\ opc = "idle"
    /\ Len(input_queue) < MaxQueue
    /\ input_queue' = Append(input_queue, QClear)
    /\ NoteInput(QClear)
    /\ UNCHANGED <<gvars, tvars, loop_state, interval, s_game, opc, op, wpc>>

\* clear(): deferred while `computing` reads true.
ClearOp ==
    /\ opc = "idle"
    /\ IF computing
       THEN /\ Len(input_queue) < MaxQueue
            /\ input_queue' = Append(input_queue, QClear)
            /\ UNCHANGED gvars
       ELSE /\ SetGame(clear_action(Game))
            /\ UNCHANGED input_queue
    /\ NoteInput(QClear)
    /\ UNCHANGED <<tvars, loop_state, interval, opc, op, wpc>>

Clear == ClearOp /\ UNCHANGED svars

\* handle_left on the cell find_cell_num gives for the click.
HandleLeftOp(cell_pos) ==
    /\ opc = "idle"
    /\ CanToggle
    /\ IF computing
       THEN /\ Len(input_queue) < MaxQueue
            /\ input_queue' = Append(input_queue, QToggle(cell_pos))
            /\ UNCHANGED gvars
       ELSE /\ SetGame(left_action(Game, cell_pos))
            /\ UNCHANGED input_queue
    /\ NoteInput(QToggle(cell_pos))
    /\ UNCHANGED <<tvars, loop_state, interval, opc, op, wpc>>

HandleLeft(cell_pos) == HandleLeftOp(cell_pos) /\ UNCHANGED svars

\* Mutant of LoadSave: the save is loaded whatever `computing` reads.
LoadSaveNeverDeferred(save) ==
    /\ opc = "idle"
    /\ SetGame(load_action(Game, save))
    /\ NoteInput(QLoad(save))
    /\ UNCHANGED <<tvars, loop_state, interval, s_game, input_queue, opc, op, wpc>>

\* load_save(save)
LoadSave(save) ==
    /\ opc = "idle"
    /\ IF computing
       THEN /\ Len(input_queue) < MaxQueue
            /\ input_queue' = Append(input_queue, QLoad(save))
            /\ UNCHANGED gvars
       ELSE /\ SetGame(load_action(Game, save))
            /\ UNCHANGED input_queue
    /\ NoteInput(QLoad(save))
    /\ UNCHANGED <<tvars, loop_state, interval, s_game, opc, op, wpc>>

\* Mutant of UpdateBeginOp: a step that is due while `computing` reads true
\* stays due, the timer is not reset.
UpdateBeginCarriesOver ==
    /\ opc = "idle"
    /\ LET r == LoopStateUpdate(loop_state, interval)
       IN  IF r.due /\ ~computing
           THEN CanDispatch /\ opc' = "step_check" /\ loop_state' = r.state
           ELSE opc' = "update_recv" /\ UNCHANGED loop_state
    /\ op' = "update"
    /\ UNCHANGED <<gvars, tvars, hvars, interval, input_queue, wpc>>

\* update(): the timer is polled and, if a step is due, `computing` loaded.
UpdateBeginOp ==
    /\ opc = "idle"
    /\ LET r == LoopStateUpdate(loop_state, interval)
       IN  /\ loop_state' = r.state
           /\ IF r.due /\ ~computing
              THEN CanDispatch /\ opc' = "step_check"
              ELSE opc' = "update_recv"
    /\ op' = "update"
    /\ UNCHANGED <<gvars, tvars, hvars, interval, input_queue, wpc>>

UpdateBegin == UpdateBeginOp /\ UNCHANGED svars

\* Mutant of UpdateRecv: the result is installed but the changes do not get
\* the cell list.
UpdateRecvNoChanges ==
    /\ opc = "update_recv"
    /\ IF chan = <<>>
       THEN /\ changes' = [grid_size |-> None, cells |-> None, offset |-> None]
            /\ opc' = "idle"
            /\ op' = "none"
            /\ UNCHANGED <<living_cells, chan>>
       ELSE /\ living_cells' = Head(chan)
            /\ chan' = Tail(chan)
            /\ opc' = "update_store"
            /\ UNCHANGED <<op, changes>>
    /\ UNCHANGED <<living_cell_count, step_count, living_count_history,
                   toggle_record, pan_position, grid_size, notification,
                   lock_holder, computing, hvars, loop_state, interval, s_game,
                   input_queue, wpc>>

\* update(): rx.try_recv().  Without a result the changes are taken and
\* update returns; with one, the LiveSet is replaced by it.
UpdateRecv ==
    /\ opc = "update_recv"
    /\ IF chan = <<>>
       THEN /\ changes' = [grid_size |-> None, cells |-> None, offset |-> None]
            /\ opc' = "idle"
            /\ op' = "none"
            /\ UNCHANGED <<living_cells, chan>>
       ELSE /\ living_cells' = Head(chan)
            /\ chan' = Tail(chan)
            /\ changes' = [changes EXCEPT !.cells =
                   Some(get_cells([Game EXCEPT !.living_cells = Head(chan)]))]
            /\ opc' = "update_store"
            /\ UNCHANGED op
    /\ UNCHANGED <<living_cell_count, step_count, living_count_history,
                   toggle_record, pan_position, grid_size, notification,
                   lock_holder, computing, hvars, loop_state, interval, s_game,
                   input_queue, wpc>>

\* update(): computing.store(false)
UpdateClearComputing ==
    /\ opc = "update_store"
    /\ computing' = FALSE
    /\ opc' = "update_commit"
    /\ UNCHANGED <<gvars, notification, lock_holder, chan, hvars, loop_state,
                   interval, s_game, input_queue, op, wpc>>

\* Mutant of UpdateCommit: the history gets the count of the generation before.
UpdateCommitStaleCount ==
    /\ opc = "update_commit"
    /\ lock_holder = "none"
    /\ notification' = Waiting
    /\ step_count' = step_count + 1
    /\ living_cell_count' = Cardinality(living_cells)
    /\ living_count_history' = Append(living_count_history, living_cell_count)
    /\ opc' = "update_drain"
    /\ UNCHANGED <<living_cells, changes, toggle_record, pan_position, grid_size,
                   lock_holder, computing, chan, hvars, loop_state, interval,
                   s_game, input_queue, op, wpc>>

\* Mutant of UpdateCommit: the history gets the number of the generation.
UpdateCommitLogsStep ==
    /\ opc = "update_commit"
    /\ lock_holder = "none"
    /\ notification' = Waiting
    /\ step_count' = step_count + 1
    /\ living_cell_count' = Cardinality(living_cells)
    /\ living_count_history' = Append(living_count_history, step_count + 1)
    /\ opc' = "update_drain"
    /\ UNCHANGED <<living_cells, changes, toggle_record, pan_position, grid_size,
                   lock_holder, computing, chan, hvars, loop_state, interval,
                   s_game, input_queue, op, wpc>>

\* update(): under the mutex the notification is reset to Waiting and the
\* counters advance; then the lock is dropped.
UpdateCommit ==
    /\ opc = "update_commit"
    /\ lock_holder = "none"
    /\ notification' = Waiting
    /\ step_count' = step_count + 1
    /\ living_cell_count' = Cardinality(living_cells)
    /\ living_count_history' = Append(living_count_history, Cardinality(living_cells))
    /\ opc' = "update_drain"
    /\ UNCHANGED <<living_cells, changes, toggle_record, pan_position, grid_size,
                   lock_holder, computing, chan, hvars, loop_state, interval, s_game,
                   input_queue, op, wpc>>

\* update(): self.resolve_queue()
UpdateDrain ==
    /\ opc = "update_drain"
    /\ LET r == resolve_queue(Game, input_queue, <<>>)
       IN  /\ SetGame(r.game)
           /\ input_queue' = r.queue
           /\ applied_log' = r.log
    /\ opc' = "update_ret"
    /\ UNCHANGED <<tvars, h_dispatch, h_ideal, loop_state, interval, s_game, op, wpc>>

\* update(): std::mem::take(&mut self.changes) is returned.
UpdateReturn ==
    /\ opc = "update_ret"
    /\ changes' = [grid_size |-> None, cells |-> None, offset |-> None]
    /\ opc' = "idle"
    /\ op' = "none"
    /\ h_dispatch' = IF Outstanding = 0 THEN 0 ELSE 2
    /\ h_ideal' = {}
    /\ applied_log' = <<>>
    /\ UNCHANGED <<living_cells, living_cell_count, step_count,
                   living_count_history, toggle_record, pan_position, grid_size,
                   tvars, loop_state, interval, s_game, input_queue, wpc>>

\* The game goes out of scope: Drop for GameState is entered and asks for the
\* mutex.
DropCall ==
    /\ opc = "idle"
    /\ opc' = "drop_lock"
    /\ UNCHANGED <<gvars, tvars, hvars, loop_state, interval, s_game,
                   input_queue, op, wpc>>

\* Mutant of Drop: Exit is stored without the mutex.
DropWithoutLock ==
    /\ opc = "drop_lock"
    /\ notification' = Exit
    /\ opc' = "dropped"
    /\ chan' = <<>>
    /\ SetGame([living_cells |-> {}, living_cell_count |-> 0, step_count |-> 0,
                living_count_history |-> <<0>>,
                changes |-> [grid_size |-> None, cells |-> None, offset |-> None],
                toggle_record |-> <<>>, pan_position |-> <<0, 0>>,
                grid_size |-> 1])
    /\ loop_state' = Stopped
    /\ input_queue' = <<>>
    /\ h_dispatch' = 0
    /\ h_ideal' = {}
    /\ UNCHANGED <<lock_holder, computing, applied_log, interval, s_game, op, wpc>>

\* Drop for GameState: the mutex is taken and Exit stored; then the fields
\* are dropped, the receiver and what the channel holds with them.  Only the
\* data shared with the worker lives on.
Drop ==
    /\ opc = "drop_lock"
    /\ lock_holder = "none"
    /\ notification' = Exit
    /\ opc' = "dropped"
    /\ chan' = <<>>
    /\ SetGame([living_cells |-> {}, living_cell_count |-> 0, step_count |-> 0,
                living_count_history |-> <<0>>,
                changes |-> [grid_size |-> None, cells |-> None, offset |-> None],
                toggle_record |-> <<>>, pan_position |-> <<0, 0>>,
                grid_size |-> 1])
    /\ loop_state' = Stopped
    /\ input_queue' = <<>>
    /\ h_dispatch' = 0
    /\ h_ideal' = {}
    /\ UNCHANGED <<lock_holder, computing, applied_log, interval, s_game, op, wpc>>

\* Time passes: a tick more has elapsed since last_update.
Tick ==
    /\ loop_state.playing
    /\ loop_state.elapsed < interval
    /\ loop_state' = [loop_state EXCEPT !.elapsed = @ + 1]
    /\ UNCHANGED <<gvars, tvars, hvars, interval, s_game, input_queue, opc, op, wpc>>

Orchestrator ==
    \/ StepCall
    \/ TogglePlaying
    \/ StepCheck
    \/ StepStore
    \/ Clear
    \/ \E c \in ClickCells : HandleLeft(c)
    \/ \E save \in Saves : LoadSave(save)
    \/ UpdateBegin
    \/ UpdateRecv
    \/ UpdateClearComputing
    \/ UpdateCommit
    \/ UpdateDrain
    \/ UpdateReturn
    \/ DropCall
    \/ Drop

Next == Orchestrator \/ Worker \/ Tick

Spec == Init /\ [][Next]_vars

\* ------------------------------------- fair scheduling, no spurious wake-up
\* The worker when Condvar::wait returns only after a notification.
WorkerQuiet ==
    \/ WorkerWait
    \/ WorkerMatch
    \/ WorkerSetComputing
    \/ WorkerCompute
    \/ WorkerFinish

\* The steps inside a method the orchestrating thread has entered.
MethodStep ==
    \/ StepCheck
    \/ StepStore
    \/ UpdateRecv
    \/ UpdateClearComputing
    \/ UpdateCommit
    \/ UpdateDrain
    \/ UpdateReturn

\* The dispatch protocol on its own: the player steps by hand, the render
\* loop polls, the game is dropped; no cell is edited and the timer is stopped,
\* so that update() makes no step() call of its own.
NextQuiet ==
    \/ StepCall
    \/ UpdateBegin
    \/ MethodStep
    \/ DropCall
    \/ Drop
    \/ WorkerQuiet

\* The scheduler is fair to the worker thread, a method that was entered runs
\* to its return, and the render loop calls update() again and again.
FairSpec ==
    /\ Init
    /\ [][NextQuiet]_vars
    /\ WF_vars(WorkerQuiet)
    /\ WF_vars(MethodStep)
    /\ WF_vars(Drop)
    /\ SF_vars(UpdateBegin)

\* -------------------------------------------------- loaded patterns
\* The patterns a game is started with lie in three rows of the grid.
Grid == (0..MaxCoord) \X (0..2)

\* A new game whose LiveSet is `cells`: the pattern was loaded from a save
\* with the default view, and update() has handed the changes to the renderer.
Loaded(cells) ==
    /\ living_cells = cells
    /\ loop_state = Stopped
    /\ interval = DEFAULT_INTERVAL
    /\ input_queue = <<>>
    /\ living_cell_count = 0
    /\ step_count = 0
    /\ living_count_history = <<0>>
    /\ changes = [grid_size |-> None, cells |-> None, offset |-> None]
    /\ toggle_record = <<>>
    /\ pan_position = <<0, 0>>
    /\ grid_size = 1
    /\ notification = Waiting
    /\ lock_holder = "none"
    /\ computing = FALSE
    /\ chan = <<>>
    /\ opc = "idle"
    /\ op = "none"
    /\ wpc = "start"
    /\ h_dispatch = 0
    /\ h_ideal = {}
    /\ applied_log = <<>>
    /\ s_game = NewGame

InitRule == \E cells \in SUBSET Grid : Loaded(cells)

\* step() called once the step before it has been committed.
NextStepCall == Quiescent /\ StepCall

\* The first step() of a game.
FirstStepCall == step_count = 0 /\ NextStepCall

NextRule ==
    \/ FirstStepCall
    \/ UpdateBegin
    \/ MethodStep
    \/ WorkerQuiet

\* The step rule at work: each pattern of the grid is stepped once by hand
\* and polled until the generation is committed.
SpecRule == InitRule /\ [][NextRule]_vars

\* ------------------------------------------------------ the blinker, stepped
Blinker == { <<0, 1>>, <<1, 1>>, <<2, 1>> }

NextBlinker ==
    \/ NextStepCall
    \/ UpdateBegin
    \/ MethodStep
    \/ DropCall
    \/ Drop
    \/ Worker

\* A new game with the blinker, stepped by hand, one step after the other.
SpecBlinker == Loaded(Blinker) /\ [][NextBlinker]_vars

\* -------------------------------------------- StateChanges merged on their own
\* Mutant of add_assign: a field of `self` that is set is kept.
add_assign_first_wins(self, other) ==
    [f \in {"grid_size", "cells", "offset"} |->
        IF self[f] # None THEN self[f] ELSE other[f]]

\* AddAssign for StateChanges: a field of `other` that is set replaces the
\* field of `self`.
add_assign(self, other) ==
    [grid_size |-> IF other.grid_size # None THEN other.grid_size ELSE self.grid_size,
     cells |-> IF other.cells # None THEN other.cells ELSE self.cells,
     offset |-> IF other.offset # None THEN other.offset ELSE self.offset]

\* The StateChanges values merged: grid sizes, cell lists and pan offsets.
StateChangesValues ==
    [grid_size : {None} \cup { Some(k) : k \in 1..(MaxCoord + 1) },
     cells : {None} \cup { Some(c) : c \in SUBSET { <<0, 0>>, <<1, 0>> } },
     offset : {None} \cup { Some(p) : p \in (0..MaxCoord) \X (0..1) }]

\* What one event handler leaves in the changes of a new game: at most one
\* field is set.
InitMerge ==
    /\ changes \in { a \in StateChangesValues :
                        Cardinality({ f \in DOMAIN a : a[f] # None }) <= 1 }
    /\ living_cells = {}
    /\ loop_state = Stopped
    /\ interval = DEFAULT_INTERVAL
    /\ input_queue = <<>>
    /\ living_cell_count = 0
    /\ step_count = 0
    /\ living_count_history = <<0>>
    /\ toggle_record = <<>>
    /\ pan_position = <<0, 0>>
    /\ grid_size = 1
    /\ notification = Waiting
    /\ lock_holder = "none"
    /\ computing = FALSE
    /\ chan = <<>>
    /\ opc = "idle"
    /\ op = "none"
    /\ wpc = "start"
    /\ h_dispatch = 0
    /\ h_ideal = {}
    /\ applied_log = <<>>
    /\ s_game = NewGame

\* changes += other
MergeChanges(other) ==
    /\ changes' = add_assign(changes, other)
    /\ UNCHANGED <<living_cells, living_cell_count, step_count,
                   living_count_history, toggle_record, pan_position, grid_size,
                   tvars, hvars, svars, loop_state, interval, input_queue, opc,
                   op, wpc>>

NextMerge == \E other \in StateChangesValues : MergeChanges(other)

SpecMerge == InitMerge /\ [][NextMerge]_vars

\* ------------------------------------------------------- the game auto-playing
\* toggle_playing from Stopped; the timer is not stopped again.
StartPlaying == ~loop_state.playing /\ TogglePlaying

\* update() as in UpdateBegin, with the model bound on the generations alone:
\* a due step is requested as long as fewer than MaxSteps are committed,
\* whatever is outstanding.
AutoUpdateBegin ==
    /\ opc = "idle"
    /\ LET r == LoopStateUpdate(loop_state, interval)
       IN  /\ loop_state' = r.state
           /\ IF r.due /\ ~computing
              THEN step_count < MaxSteps /\ opc' = "step_check"
              ELSE opc' = "update_recv"
    /\ op' = "update"
    /\ UNCHANGED <<gvars, tvars, hvars, svars, interval, input_queue, wpc>>

NextAuto ==
    \/ StartPlaying
    \/ Tick
    \/ AutoUpdateBegin
    \/ MethodStep
    \/ Worker

\* Time advances, the render loop calls update() again and again, a method
\* that was entered runs to its return and the scheduler is fair to the
\* worker thread; a wake-up without notification may happen, or never.
SpecAuto ==
    /\ Init
    /\ [][NextAuto]_vars
    /\ WF_vars(Tick)
    /\ SF_vars(AutoUpdateBegin)
    /\ WF_vars(MethodStep)
    /\ WF_vars(WorkerQuiet)

\* ------------------------------- the build without native_threads, running
\* No worker thread exists: every method is one step of the only thread.
SyncFrame == UNCHANGED <<tvars, hvars, svars, interval, opc, op, wpc>>

\* The Tab key: handle_window_event calls step().
SyncStep ==
    /\ step_count < MaxSteps
    /\ SetGame(sync_step(Game))
    /\ UNCHANGED <<loop_state, input_queue>>
    /\ SyncFrame

\* toggle_playing: stop, or call step() and then start playing.
SyncTogglePlaying ==
    /\ IF loop_state.playing
       THEN /\ loop_state' = Stopped
            /\ UNCHANGED gvars
       ELSE /\ step_count < MaxSteps
            /\ SetGame(sync_step(Game))
            /\ loop_state' = PlayingNow
    /\ UNCHANGED input_queue
    /\ SyncFrame

SyncClear ==
    /\ SetGame(sync_clear(Game))
    /\ UNCHANGED <<loop_state, input_queue>>
    /\ SyncFrame

SyncHandleLeft(cell_pos) ==
    /\ Len(toggle_record) < MaxToggles
    /\ SetGame(sync_handle_left(Game, cell_pos))
    /\ UNCHANGED <<loop_state, input_queue>>
    /\ SyncFrame

SyncLoadSave(save) ==
    /\ SetGame(sync_load_save(Game, save))
    /\ UNCHANGED <<loop_state, input_queue>>
    /\ SyncFrame

SyncUpdate ==
    /\ LoopStateUpdate(loop_state, interval).due => step_count < MaxSteps
    /\ LET r == sync_update(Game, loop_state, interval, input_queue)
       IN  /\ SetGame(r.game)
           /\ input_queue' = r.queue
           /\ loop_state' = r.loop_state
    /\ SyncFrame

NextSync ==
    \/ SyncStep
    \/ SyncTogglePlaying
    \/ SyncClear
    \/ \E c \in ClickCells : SyncHandleLeft(c)
    \/ \E save \in Saves : SyncLoadSave(save)
    \/ SyncUpdate
    \/ Tick

SpecSync == Init /\ [][NextSync]_vars

\* ------------------------------------------- the two builds side by side
\* The same operations are given to both builds; a step of the threaded build
\* is polled through to its commit before the next operation is made.  The
\* timer stays stopped.
EqStep ==
    /\ Quiescent
    /\ s_game.step_count < MaxSteps
    /\ StepCallOp
    /\ s_game' = sync_step(s_game)

EqClear ==
    /\ Quiescent
    /\ ClearOp
    /\ s_game' = sync_clear(s_game)

EqToggle(cell_pos) ==
    /\ Quiescent
    /\ Len(s_game.toggle_record) < MaxToggles
    /\ HandleLeftOp(cell_pos)
    /\ s_game' = sync_handle_left(s_game, cell_pos)

EqUpdate ==
    /\ UpdateBeginOp
    /\ s_game' = sync_update(s_game, Stopped, interval, <<>>).game

NextEquiv ==
    \/ EqStep
    \/ EqClear
    \/ \E c \in ClickCells : EqToggle(c)
    \/ EqUpdate
    \/ MethodStep
    \/ Worker

SpecEquiv == Init /\ [][NextEquiv]_vars

\* ------------------------------------------- the step rule, visit by visit
\* Mutant of insert_adjacent: a key already in the map is set to 1 again.
insert_adjacent_no_increment(rec, i) ==
    LET keys == { get_adjacent(i)[k] : k \in 1..8 }
    IN  [j \in DOMAIN rec \cup keys |-> IF j \in keys THEN 1 ELSE rec[j]]

\* The inner loop of compute_step for the living cell i: each of its eight
\* neighbours (all different) is inserted with 1, or with its count plus 1.
insert_adjacent(rec, i) ==
    LET keys == { get_adjacent(i)[k] : k \in 1..8 }
    IN  [j \in DOMAIN rec \cup keys |->
            IF j \in keys
            THEN (IF j \in DOMAIN rec THEN rec[j] + 1 ELSE 1)
            ELSE rec[j]]

\* The outer loop, `for i in prev.iter()`, when the HashSet yields the cells
\* in the order given; the map starts empty.
RECURSIVE adjacency_rec_in_order(_)
adjacency_rec_in_order(order) ==
    IF order = <<>> THEN <<>>
    ELSE insert_adjacent(adjacency_rec_in_order(SubSeq(order, 1, Len(order) - 1)),
                         order[Len(order)])

\* compute_step with the iteration order of prev made explicit.
compute_step_in_order(prev, order) ==
    LET rec == adjacency_rec_in_order(order)
    IN  { coords \in DOMAIN rec : alive_rules(rec[coords], prev, coords) }

\* The orders in which a HashSet may yield its elements.
Orders(S) ==
    { o \in [1..Cardinality(S) -> S] :
        \A a, b \in 1..Cardinality(S) : a # b => o[a] # o[b] }

\* step() of the build without native_threads, the order of iteration given.
sync_step_in_order(g, order) ==
    LET g1 == [g EXCEPT !.living_cells = compute_step_in_order(g.living_cells, order)]
        g2 == [g1 EXCEPT !.changes = [g1.changes EXCEPT !.cells = Some(get_cells(g1))],
                         !.step_count = g1.step_count + 1,
                         !.living_cell_count = Cardinality(g1.living_cells)]
    IN  [g2 EXCEPT !.living_count_history =
                       Append(g2.living_count_history, g2.living_cell_count)]

\* A new game holding a pattern of at most MaxVisited cells.
InitOrder ==
    \E cells \in { s \in SUBSET Grid : Cardinality(s) <= MaxVisited } : Loaded(cells)

\* The first step of the pattern, its cells visited in the order given.
SyncStepInOrder(order) ==
    /\ step_count = 0
    /\ SetGame(sync_step_in_order(Game, order))
    /\ UNCHANGED <<tvars, hvars, svars, loop_state, interval, input_queue, opc, op,
                   wpc>>

NextOrder == \E order \in Orders(living_cells) : SyncStepInOrder(order)

SpecOrder == InitOrder /\ [][NextOrder]_vars

\* ------------------------------------------------- the reference Life rule
\* The live cells among the 8 neighbours of c.
LiveNeighbours(c, cells) ==
    Cardinality({ d \in cells : /\ d # c
                                /\ d[1] - c[1] \in -1..1
                                /\ d[2] - c[2] \in -1..1 })

\* The cells that can have a live neighbour.
Surroundings(cells) ==
    { <<c[1] + dx, c[2] + dy>> : c \in cells, dx \in -1..1, dy \in -1..1 }

\* B3/S23 by counting the neighbours of each cell.
LifeRule(cells) ==
    { c \in Surroundings(cells) :
        \/ LiveNeighbours(c, cells) = 3
        \/ LiveNeighbours(c, cells) = 2 /\ c \in cells }

\* ------------------------------------------------------------ well-formedness
LiveSets == SUBSET ((-1..2) \X (-1..2))

TypeOK ==
    /\ living_cells \in LiveSets
    /\ loop_state.playing \in BOOLEAN
    /\ loop_state.elapsed \in 0..interval
    /\ Len(input_queue) <= MaxQueue
    /\ step_count \in 0..(MaxSteps + 1)
    /\ Len(toggle_record) <= MaxToggles
    /\ notification.type \in {"Waiting", "Exit", "Compute"}
    /\ lock_holder \in {"none", "worker"}
    /\ computing \in BOOLEAN
    /\ Len(chan) <= 2
    /\ opc \in {"idle", "step_check", "step_lock", "update_recv", "update_store",
                "update_commit", "update_drain", "update_ret", "drop_lock",
                "dropped"}
    /\ op \in {"none", "step", "toggle_playing", "update"}
    /\ wpc \in {"start", "waiting", "woken", "set_flag", "compute", "sent", "exited"}
    /\ h_dispatch \in 0..2
    /\ (lock_holder = "worker") = (wpc \in {"set_flag", "compute", "sent"})

\* ------------------------------------------------------------------ claims

\* C1: single-flight.  In every reachable state at most one computation is
\* outstanding: a stored Compute request not yet taken, a computation the
\* worker is running, and the results not yet received from the channel,
\* taken together.
C1_SingleFlight == Outstanding <= 1

\* C2: inputs made mid-computation are not lost.  When update() has committed
\* the result of the one computation dispatched since the engine was last
\* quiescent and has drained the queue, the LiveSet is that result with every
\* input submitted since the dispatch applied to it.
C2_InputsNotLost ==
    (opc = "update_ret" /\ h_dispatch = 1) => living_cells = h_ideal

\* C3: snapshot immutability.  While a computation is outstanding, no
\* operation of the orchestrating thread other than update()'s commit changes
\* the LiveSet.
C3_SnapshotImmutable ==
    [][(Outstanding > 0 /\ opc = "idle" /\ opc' = "idle")
          => living_cells' = living_cells]_vars

\* C4: the busy flag reads true exactly when a computation has been dispatched
\* and its result not yet committed.
C4_BusyReflectsOutstanding ==
    opc # "dropped" => (computing <=> Outstanding > 0)

\* C5: deferred FIFO ordering.  The drain applies the queued actions in the
\* order they were submitted, and it applies them only once every computation
\* that was outstanding when they were submitted has been committed (a step()
\* made after an action was queued returns early, so a computation still
\* outstanding at the drain was outstanding when the action was submitted).
C5_DeferredFifo ==
    [][(opc = "update_drain" /\ opc' = "update_ret")
          => /\ applied_log' = input_queue
             /\ (input_queue # <<>> => Outstanding = 0)]_vars

\* The order half of C5 on its own: the drain applies exactly the queued
\* actions, front to back, and the LiveSet it leaves is the committed result
\* with their effects applied in that order.
RECURSIVE ReplayFifo(_, _, _)
ReplayFifo(cells, queue, k) ==
    IF k > Len(queue) THEN cells
    ELSE ReplayFifo(InputEffect(queue[k], cells), queue, k + 1)

DrainInOrder ==
    [][(opc = "update_drain" /\ opc' = "update_ret")
          => /\ applied_log' = input_queue
             /\ living_cells' = ReplayFifo(living_cells, input_queue, 1)]_vars

\* C6: between operations of the orchestrating thread, the input queue is
\* non-empty only while a dispatched computation has not been committed.
C6_QueueOnlyWhileOutstanding ==
    (opc = "idle" /\ input_queue # <<>>) => Outstanding > 0

C6_Witness == opc = "idle" /\ Len(input_queue) = MaxQueue /\ Outstanding = 1

\* C7: drain before re-dispatch.  When update() has committed a result the
\* queue is empty as update() returns, and from the commit to the end of the
\* drain no Compute request is stored.
C7_DrainBeforeRedispatch ==
    /\ opc = "update_ret" => input_queue = <<>>
    /\ opc \in {"update_drain", "update_ret"} => notification.type # "Compute"

C7_Witness == opc = "update_ret" /\ Len(applied_log) = MaxQueue

\* C8: the step counter and the population history stay in lockstep,
\* population_history.len() == step_count + 1, after every operation.
C8_CounterInvariant == Len(living_count_history) = step_count + 1

C8_Witness ==
    /\ opc = "update_ret"
    /\ step_count = 2
    /\ living_count_history[3] > 0
    /\ applied_log # <<>>

\* C9: step() is a no-op while a computation is outstanding: the step of
\* step() that follows the load of the busy flag leaves the notification
\* state as it was.
C9_StepNoOpWhileOutstanding ==
    [][(Outstanding > 0 /\ opc = "step_lock" /\ opc' # "step_lock")
          => notification' = notification]_vars

\* C10: step() never blocks: the orchestrating thread is never inside step()
\* wanting the notification mutex while the worker holds it over a
\* computation.
C10_StepNeverBlocks == ~(opc = "step_lock" /\ lock_holder = "worker")

\* C11: clean shutdown.  Once the game has been dropped (Exit stored), the
\* worker eventually leaves its loop, given a fair scheduler and a condition
\* variable that wakes only when notified.
C11_CleanShutdown == (opc = "dropped") ~> (wpc = "exited")

\* C12: a dispatched computation runs to completion.  A Compute request that
\* step() has stored is eventually taken up by the worker, and a result the
\* worker has sent is eventually committed by update(), unless the game is
\* dropped first.
C12_DispatchCompletes ==
    /\ (notification.type = "Compute" /\ lock_holder = "none")
          ~> (lock_holder = "worker" \/ opc = "dropped")
    /\ (chan # <<>>) ~> (opc = "update_store" \/ opc = "dropped")

\* C13: strategy equivalence.  Given the same operations (toggle, clear, step,
\* update), each step polled through to its commit before the next operation,
\* the threaded build and the build without threads hold the same LiveSet,
\* step_count, population history and toggle history between operations.
C13_StrategyEquivalence ==
    Quiescent =>
        /\ living_cells = s_game.living_cells
        /\ step_count = s_game.step_count
        /\ living_count_history = s_game.living_count_history
        /\ toggle_record = s_game.toggle_record

\* C14: clear() with no computation outstanding empties the LiveSet, resets
\* step_count to 0 and the population history to [0], clears the toggle
\* history and marks the cell list changed to the empty list, in the threaded
\* build and in the build without threads.
C14_ClearResets ==
    [][((Outstanding = 0 /\ Clear) \/ SyncClear)
          => /\ living_cells' = {}
             /\ step_count' = 0
             /\ living_count_history' = <<0>>
             /\ toggle_record' = <<>>
             /\ changes'.cells = Some({})]_vars

\* C15: clear() is idempotent.  With no computation outstanding, the state a
\* clear() leaves is the state a second clear() would leave, and it has an
\* empty LiveSet, step_count 0, an empty toggle history and the population
\* history [0].
C15_ClearIdempotent ==
    [][/\ (Outstanding = 0 /\ Clear) => clear_action(Game') = Game'
       /\ SyncClear => sync_clear(Game') = Game'
       /\ ((Outstanding = 0 /\ Clear) \/ SyncClear)
             => /\ living_cells' = {}
                /\ step_count' = 0
                /\ toggle_record' = <<>>
                /\ living_count_history' = <<0>>]_vars

\* C16: a toggle made with no computation outstanding flips the membership
\* of the cell in the LiveSet and leaves every other cell as it was, appends
\* the current step_count to the toggle history and marks the cell list
\* changed; step_count and the population history stay as they were.
C16_ToggleFlips ==
    [][\A c \in ClickCells :
          (Outstanding = 0 /\ HandleLeft(c))
             => /\ c \in living_cells' <=> c \notin living_cells
                /\ living_cells' \ {c} = living_cells \ {c}
                /\ toggle_record' = Append(toggle_record, step_count)
                /\ changes'.cells # None
                /\ step_count' = step_count
                /\ living_count_history' = living_count_history]_vars

\* A toggle has removed (0,0) from the loaded pattern, the other cells stay.
C16_Witness ==
    /\ Quiescent
    /\ living_cells = { <<1, 0>>, <<0, 1>> }
    /\ toggle_record = <<0>>
    /\ changes.cells # None

\* C17: between operations get_living_count returns the number of cells in
\* the LiveSet.
C17_LivingCountCurrent ==
    opc = "idle" => get_living_count(Game) = Cardinality(living_cells)

\* The worker has sent a generation that update() has not received yet; the
\* snapshot it was computed from is still in the notification.
JustSent == wpc = "sent" /\ chan # <<>>
Sent == chan[Len(chan)]

\* C18: grid step rule.  For every pattern of the grid, what compute_step
\* returns for the snapshot is the set of cells with exactly 3 live
\* neighbours, or exactly 2 and alive in the snapshot: the reference rule by
\* counting the neighbours of each cell.
C18_StepRule == JustSent => Sent = LifeRule(notification.data)

\* A column of three has been stepped: a cell is born outside the grid, the
\* middle survives, the ends die.
C18_Witness ==
    /\ JustSent
    /\ notification.data = { <<0, 0>>, <<0, 1>>, <<0, 2>> }
    /\ Sent = { <<-1, 1>>, <<0, 1>>, <<1, 1>> }

\* C19: the blinker end to end.  A new game with the LiveSet
\* {(0,1),(1,1),(2,1)} has {(1,0),(1,1),(1,2)} once one step is committed and
\* {(0,1),(1,1),(2,1)} again once a second one is; step_count is then 2 and
\* the population history [0,3,3].
C19_BlinkerScenario ==
    opc = "idle" =>
        /\ step_count = 0 => living_cells = Blinker
        /\ step_count = 1 => living_cells = { <<1, 0>>, <<1, 1>>, <<1, 2>> }
        /\ step_count = 2 => /\ living_cells = Blinker
                             /\ living_count_history = <<0, 3, 3>>

C19_Witness ==
    /\ Quiescent
    /\ step_count = 2
    /\ living_cells = Blinker
    /\ living_count_history = <<0, 3, 3>>

\* C20: known patterns.  compute_step leaves the 2x2 block as it is and takes
\* the glider to its next generation.
Block == { <<0, 0>>, <<1, 0>>, <<0, 1>>, <<1, 1>> }
Glider == { <<1, 0>>, <<2, 1>>, <<0, 2>>, <<1, 2>>, <<2, 2>> }
GliderNext == { <<0, 1>>, <<2, 1>>, <<1, 2>>, <<2, 2>>, <<1, 3>> }

C20_KnownPatterns ==
    JustSent =>
        /\ notification.data = Block => Sent = Block
        /\ notification.data = Glider => Sent = GliderNext

C20_Witness ==
    /\ JustSent
    /\ notification.data = Glider
    /\ Sent = GliderNext

\* C21: extinction is stable.  A game that starts empty and is only stepped
\* stays empty: every result the worker computes from the empty LiveSet is
\* empty, the LiveSet is empty after every commit, and every entry the commits
\* push on the population history is 0.
C21_ExtinctionStable ==
    /\ living_cells = {}
    /\ \A k \in 1..Len(chan) : chan[k] = {}
    /\ \A k \in 1..Len(living_count_history) : living_count_history[k] = 0

\* Two generations of the empty game were committed.
C21_Witness ==
    /\ opc = "idle"
    /\ step_count = 2
    /\ living_cells = {}
    /\ living_count_history = <<0, 0, 0>>

\* C22: toggle_playing from Playing only sets the timer to Stopped; from
\* Stopped it enters step(), that one call of step() either returns at the
\* load of `computing` or stores the request, and on its return the timer is
\* Playing { now } and the method is over.
C22_TogglePlaying ==
    [][/\ (TogglePlaying /\ loop_state.playing) =>
            /\ loop_state' = Stopped
            /\ UNCHANGED <<gvars, tvars, interval, input_queue, opc, op, wpc>>
       /\ (TogglePlaying /\ ~loop_state.playing) =>
            /\ opc' = "step_check" /\ op' = "toggle_playing"
            /\ UNCHANGED <<gvars, tvars, interval, input_queue, loop_state>>
       /\ (op = "toggle_playing" /\ StepCheck) =>
            IF computing
            THEN opc' = "idle" /\ loop_state' = PlayingNow /\ UNCHANGED tvars
            ELSE opc' = "step_lock" /\ loop_state' = Stopped
       /\ (op = "toggle_playing" /\ StepStore) =>
            /\ opc' = "idle" /\ loop_state' = PlayingNow
            /\ notification' = Compute(living_cells)
       /\ op' = "toggle_playing" => opc' \in {"step_check", "step_lock"}
      ]_vars

\* The game was started from Stopped and its step() call dispatched.
C22_Witness ==
    /\ opc = "idle"
    /\ loop_state.playing
    /\ step_count = 0
    /\ h_dispatch = 1
    /\ notification.type = "Compute"

\* C23: the timer poll of update().  Stopped: false, state unchanged.
\* Playing: true with last_update set to now exactly when the elapsed time is
\* at least the interval, false without a change otherwise.  update() calls
\* step() exactly when the poll returned true and `computing` reads false.
C23_TimerPoll ==
    [][UpdateBegin =>
         LET due == loop_state.playing /\ loop_state.elapsed >= interval
         IN  /\ LoopStateUpdate(loop_state, interval).due = due
             /\ loop_state' = IF due THEN PlayingNow ELSE loop_state
             /\ (opc' = "step_check") <=> (due /\ ~computing)
      ]_vars

\* update() found the step due and entered step().
C23_Witness == opc = "step_check" /\ op = "update" /\ loop_state = PlayingNow

\* C24: while `computing` reads true, clear, handle_left and load_save append
\* their one action to the tail of the queue and leave the LiveSet, the
\* counters, the histories and the changes alone.
C24_DeferralPolicy ==
    [][/\ (computing /\ Clear) =>
            input_queue' = Append(input_queue, QClear) /\ UNCHANGED gvars
       /\ \A c \in ClickCells : (computing /\ HandleLeft(c)) =>
            input_queue' = Append(input_queue, QToggle(c)) /\ UNCHANGED gvars
       /\ \A save \in Saves : (computing /\ LoadSave(save)) =>
            input_queue' = Append(input_queue, QLoad(save)) /\ UNCHANGED gvars
      ]_vars

\* A toggle and a load were deferred, in that order.
C24_Witness ==
    /\ opc = "idle"
    /\ computing
    /\ Len(input_queue) = 2
    /\ input_queue[1].type = "Toggle"
    /\ input_queue[2].type = "Load"

\* C25: the commit of update().  With a result on the channel, update() takes
\* the oldest one and installs it as the LiveSet with the cell list of the
\* changes set, stores false to `computing`, adds exactly 1 to step_count and
\* pushes exactly one history entry, the size of the LiveSet just installed,
\* drains the whole queue, and returns changes whose cell list is set.
C25_Commit ==
    [][/\ (UpdateRecv /\ chan # <<>>) =>
            /\ living_cells' = Head(chan)
            /\ chan' = Tail(chan)
            /\ changes'.cells # None
            /\ opc' = "update_store"
       /\ UpdateClearComputing => (~computing' /\ living_cells' = living_cells)
       /\ UpdateCommit =>
            /\ step_count' = step_count + 1
            /\ living_cells' = living_cells
            /\ living_cell_count' = Cardinality(living_cells)
            /\ living_count_history' =
                   Append(living_count_history, Cardinality(living_cells))
       /\ UpdateDrain => input_queue' = <<>>
       /\ opc = "update_ret" => changes.cells # None
      ]_vars

\* The block computed from the loaded save was committed as generation 1 and
\* a deferred action drained; update() is about to return the changes.
C25_Witness ==
    /\ opc = "update_ret"
    /\ step_count = 1
    /\ living_count_history = <<0, 4>>
    /\ Len(applied_log) = 1
    /\ input_queue = <<>>
    /\ changes.cells # None

\* C26: each commit advances exactly one generation.  The LiveSet a commit
\* installs is compute_step of the LiveSet the game held just before it.
C26_OneGenerationPerCommit ==
    [][(UpdateRecv /\ chan # <<>>) => living_cells' = compute_step(living_cells)]_vars

\* C27: update() never waits for the worker.  In no reachable state is
\* update() at its lock of the notification mutex while the worker holds the
\* mutex over a computation it has not finished.
C27_UpdateNeverBlocks ==
    ~(opc = "update_commit" /\ lock_holder = "worker" /\ wpc \in {"set_flag", "compute"})

\* C28: the deferred double toggle.  When the queue drained after a commit
\* holds two toggles of the same cell and nothing else, the drain leaves the
\* LiveSet as the commit installed it, appends exactly two entries to the
\* toggle history and empties the queue.
C28_DeferredDoubleToggle ==
    [][\A c \in ClickCells :
         (UpdateDrain /\ input_queue = <<QToggle(c), QToggle(c)>>) =>
            /\ living_cells' = living_cells
            /\ living_cell_count' = living_cell_count
            /\ Len(toggle_record') = Len(toggle_record) + 2
            /\ SubSeq(toggle_record', 1, Len(toggle_record)) = toggle_record
            /\ input_queue' = <<>>
      ]_vars

\* Cell (0,0) was toggled twice while the block was being computed from the
\* loaded save; the block was committed and both toggles drained.
C28_Witness ==
    /\ opc = "update_ret"
    /\ applied_log = <<QToggle(<<0, 0>>), QToggle(<<0, 0>>)>>
    /\ living_cells = {<<0, 0>>, <<1, 0>>, <<0, 1>>, <<1, 1>>}
    /\ Len(toggle_record) = 2

\* C29: results are delivered in request order, none dropped or duplicated.
\* The worker appends compute_step of the snapshot it took at the tail of the
\* channel, update() commits from the head, one result a call, and the
\* channel never holds more than one result that is not committed.
C29_ResultsInOrder ==
    [][/\ WorkerCompute => chan' = Append(chan, compute_step(notification.data))
       /\ (UpdateRecv /\ chan # <<>>) =>
            (living_cells' = Head(chan) /\ chan' = Tail(chan))
       /\ Len(chan') <= 1
      ]_vars

\* C30: shutdown during a computation does not cancel it.  While Drop waits
\* for the mutex the worker holds over a request, Exit is not stored and the
\* drop does not go on; the worker computing in that time sends
\* compute_step of the snapshot it took, with the notification untouched.
C30_ShutdownLeavesComputation ==
    [][/\ (opc = "drop_lock" /\ wpc \in {"set_flag", "compute", "sent"}) =>
            (notification'.type # "Exit" /\ opc' = "drop_lock")
       /\ (opc = "drop_lock" /\ wpc = "compute") =>
            /\ notification' = notification
            /\ \/ wpc' = "compute" /\ chan' = chan
               \/ /\ wpc' = "sent"
                  /\ chan' = Append(chan, compute_step(notification.data))
       /\ Drop => wpc \notin {"set_flag", "compute", "sent"}
      ]_vars

\* The game is being dropped while the worker computes the generation after
\* the loaded save: Drop waits for the mutex.
C30_Witness ==
    /\ opc = "drop_lock"
    /\ wpc = "compute"
    /\ lock_holder = "worker"
    /\ notification.type = "Compute"
    /\ notification.data # {}

\* update() is at its last statement: std::mem::take(&mut self.changes).
Returning == UpdateReturn \/ (UpdateRecv /\ chan = <<>>)

\* C31: update() returns the accumulated changes and resets them.  What
\* update() returns is the value of `changes` at its return, and it leaves all
\* three fields absent; between two returns no step of the live game makes a
\* field that was set absent again, and the steps that are no cell edit and no
\* commit leave the changes as they are (so that an update() right after one,
\* with nothing due and no result, returns the three fields absent).
C31_ChangesReturnedAndReset ==
    [][/\ Returning =>
            changes' = [grid_size |-> None, cells |-> None, offset |-> None]
       /\ (~Returning /\ ~Drop) =>
            \A f \in {"grid_size", "cells", "offset"} :
                changes[f] # None => changes'[f] # None
       /\ (StepCall \/ TogglePlaying \/ StepCheck \/ StepStore \/ UpdateBegin
              \/ UpdateClearComputing \/ UpdateCommit \/ DropCall \/ Worker \/ Tick) =>
            changes' = changes
      ]_vars

\* A save was loaded and then the grid cleared since the last update(), and
\* update(), finding no result, is about to return all three fields.
C31_Witness ==
    /\ opc = "update_recv"
    /\ chan = <<>>
    /\ living_cells = {}
    /\ changes.grid_size # None
    /\ changes.cells = Some({})
    /\ changes.offset # None

\* C32: merging StateChanges is last-write-wins per field.  After
\* self += other each of grid_size, cells and offset has the value of other
\* if other has one and the value self had otherwise; merging the all-absent
\* value leaves self as it was.
C32_LastWriteWins ==
    [][\A other \in StateChangesValues :
         MergeChanges(other) =>
            /\ \A f \in {"grid_size", "cells", "offset"} :
                  changes'[f] = IF other[f] # None THEN other[f] ELSE changes[f]
            /\ other = [grid_size |-> None, cells |-> None, offset |-> None] =>
                  changes' = changes
      ]_vars

\* A merge has left all three fields set, the grid size and the offset at
\* their largest values.
C32_Witness ==
    /\ changes.grid_size = Some(MaxCoord + 1)
    /\ changes.cells = Some({ <<0, 0>>, <<1, 0>> })
    /\ changes.offset = Some(<<MaxCoord, 1>>)

\* C33: the build without native_threads has no outstanding computation.
\* step() installs compute_step of the LiveSet, adds 1 to step_count and
\* pushes one history entry, the size of the new LiveSet, before it returns;
\* the input queue is empty in every reachable state.
C33_SyncInline ==
    [][/\ SyncStep =>
            /\ living_cells' = compute_step(living_cells)
            /\ step_count' = step_count + 1
            /\ living_count_history' =
                   Append(living_count_history, Cardinality(compute_step(living_cells)))
       /\ input_queue = <<>>
       /\ input_queue' = <<>>
      ]_vars

\* The loaded save was stepped twice: the block, counted twice.
C33_Witness ==
    /\ step_count = 2
    /\ living_cells = {<<0, 0>>, <<1, 0>>, <<0, 1>>, <<1, 1>>}
    /\ living_count_history = <<0, 4, 4>>
    /\ input_queue = <<>>
    /\ notification = Waiting
    /\ wpc = "start"

\* C34: the gate of the automatic step.  update() enters step() only when
\* the timer reported a step due and `computing` read false, and inside
\* update() a request is stored by that step() alone; when the step is due
\* while `computing` reads true, update() goes on to the poll of the channel
\* with no request stored and the timer reset to now, so the step is skipped.
C34_AutoStepGate ==
    [][/\ (UpdateBegin /\ opc' = "step_check") =>
            /\ loop_state.playing /\ loop_state.elapsed >= interval
            /\ ~computing
       /\ (op = "update" /\ notification' # notification
              /\ notification'.type = "Compute") =>
            (opc = "step_lock" /\ StepStore)
       /\ (UpdateBegin /\ loop_state.playing /\ loop_state.elapsed >= interval
              /\ computing) =>
            /\ opc' = "update_recv"
            /\ loop_state' = PlayingNow
            /\ notification' = notification
      ]_vars

\* update() polled the timer while the worker was computing: it is at the
\* poll of the channel, no step() entered, the timer counting from now.
C34_Witness ==
    /\ opc = "update_recv"
    /\ op = "update"
    /\ computing
    /\ wpc = "compute"
    /\ chan = <<>>
    /\ loop_state = PlayingNow
    /\ step_count = 1

\* C35: auto-play makes progress.  While the game plays, every number of
\* committed generations below the model bound is exceeded later on; the busy
\* flag does not stay true for ever, and the worker does not sleep for ever
\* on a stored request.
C35_AutoPlayProgress ==
    /\ \A k \in 0..(MaxSteps - 1) :
          (loop_state.playing /\ step_count = k) ~> (step_count > k)
    /\ computing ~> ~computing
    /\ (loop_state.playing /\ notification.type = "Compute" /\ wpc = "waiting")
          ~> (notification.type # "Compute" \/ wpc # "waiting")

\* The worker sleeps on a request whose notification it missed, in a playing
\* game with one generation committed.
C35_Witness ==
    /\ loop_state.playing
    /\ step_count = 1
    /\ opc = "idle"
    /\ notification.type = "Compute"
    /\ wpc = "waiting"
    /\ ~computing

\* Requests stored and not yet computed: the one the notification holds.
Pending == IF notification.type = "Compute" /\ wpc # "sent" THEN 1 ELSE 0

\* C36: no result without a request.  Every result the worker sends uses up
\* the one pending request, and only a step() that stores Compute makes a
\* request pending, so the results sent (and the commits) never outnumber
\* the requests stored; the worker is past its match only on a Compute
\* notification, and a wake-up that finds Waiting leads back to the wait
\* with nothing sent.
C36_NoResultWithoutRequest ==
    [][/\ WorkerCompute => (Pending = 1 /\ Pending' = 0)
       /\ Pending' > Pending => StepStore
       /\ Len(chan') > Len(chan) => WorkerCompute
       /\ wpc' \in {"set_flag", "compute", "sent"} => notification'.type = "Compute"
       /\ (WorkerMatch /\ notification.type = "Waiting") =>
            (wpc' = "start" /\ chan' = chan /\ computing' = computing)
      ]_vars

\* The worker woke up while no request was stored.
C36_Witness ==
    /\ opc = "idle"
    /\ wpc = "woken"
    /\ notification = Waiting
    /\ h_dispatch = 0
    /\ step_count = 0
    /\ chan = <<>>
    /\ ~computing

\* C37: a load that is applied, at once when `computing` reads false or as
\* the last action of the queue drained after a commit, leaves the LiveSet
\* equal to the cells of the save, step_count 0, the population history <<0>>
\* and the toggle history empty, takes pan and grid size from the save, and
\* marks cells, grid size and offset changed.
C37_LoadResets ==
    [][\A save \in Saves :
         (\/ ~computing /\ LoadSave(save)
          \/ /\ UpdateDrain
             /\ input_queue # <<>>
             /\ input_queue[Len(input_queue)] = QLoad(save)) =>
            /\ living_cells' = save.living_cells
            /\ step_count' = 0
            /\ living_count_history' = <<0>>
            /\ toggle_record' = <<>>
            /\ pan_position' = save.pan_position
            /\ grid_size' = save.grid_size
            /\ changes'.cells =
                  Some({ to_cell(c, save.grid_size) : c \in save.living_cells })
            /\ changes'.grid_size = Some(save.grid_size)
            /\ changes'.offset = Some(save.pan_position)
      ]_vars

\* A load deferred behind a toggle was drained after a commit: the counters
\* are back at their start and the toggle is gone from the history.
C37_Witness ==
    /\ opc = "update_ret"
    /\ Len(applied_log) = 2
    /\ applied_log[1].type = "Toggle"
    /\ applied_log[2].type = "Load"
    /\ living_cells = applied_log[2].save.living_cells
    /\ step_count = 0
    /\ living_count_history = <<0>>
    /\ toggle_record = <<>>

\* The last queued action that empties the toggle history (0 if none), and
\* the queued toggles behind it, whose entries the drain leaves at the end of
\* the toggle history.
LastReset ==
    LET R == { j \in 1..Len(input_queue) : input_queue[j].type \in {"Clear", "Load"} }
    IN  IF R = {} THEN 0 ELSE CHOOSE j \in R : \A i \in R : i <= j
SurvivingToggles ==
    { k \in (LastReset + 1)..Len(input_queue) : input_queue[k].type = "Toggle" }

\* The drain stamps the queued toggles with the step_count the commit left,
\* or with 0 behind a queued action of one of the types in `zeroing`.
DrainStamps(zeroing) ==
    LET n == Cardinality(SurvivingToggles)
        base == Len(toggle_record') - n
        stamp == IF \E j \in 1..LastReset : input_queue[j].type \in zeroing
                 THEN 0 ELSE step_count
    IN  /\ base >= 0
        /\ \A i \in 1..n : toggle_record'[base + i] = stamp

\* C38: a deferred toggle is stamped in the toggle history with the
\* step_count the releasing commit left (the incremented count), or with 0 if
\* a deferred Clear precedes it in the queue; every entry of the toggle
\* history is at most the step_count of the moment.
C38_DeferredToggleStamp ==
    [][/\ UpdateDrain => DrainStamps({"Clear"})
       /\ \A k \in 1..Len(toggle_record') : toggle_record'[k] <= step_count'
      ]_vars

\* C38 amended: as C38, with 0 also behind a deferred Load.
C38_DeferredToggleStampAmended ==
    [][/\ UpdateDrain => DrainStamps({"Clear", "Load"})
       /\ \A k \in 1..Len(toggle_record') : toggle_record'[k] <= step_count'
      ]_vars

\* A toggle deferred behind a load was drained after a commit and stamped 0.
C38_Witness ==
    /\ opc = "update_ret"
    /\ Len(applied_log) = 2
    /\ applied_log[1].type = "Load"
    /\ applied_log[2].type = "Toggle"
    /\ step_count = 0
    /\ toggle_record = <<0>>

\* C39: a step() that reads `computing` false only posts a request.  It
\* stores Compute with a copy of the LiveSet of the moment and notifies the
\* condition variable (a waiting worker is woken), and neither its load of
\* the flag nor its store changes the LiveSet, the counters, the histories,
\* the queue, the changes, the channel or the flag.
C39_StepOnlyPosts ==
    [][/\ (StepCheck /\ ~computing) =>
            /\ opc' = "step_lock"
            /\ UNCHANGED <<gvars, tvars, input_queue, wpc>>
       /\ StepStore =>
            /\ notification' = Compute(living_cells)
            /\ wpc = "waiting" => wpc' = "woken"
            /\ wpc # "waiting" => wpc' = wpc
            /\ UNCHANGED <<gvars, input_queue, chan, computing>>
      ]_vars

\* step() on the loaded save has returned: the request holds the save's
\* cells, the worker is woken, the game is as it was.
C39_Witness ==
    /\ opc = "idle"
    /\ notification = Compute({<<0, 0>>, <<1, 0>>, <<0, 1>>})
    /\ living_cells = notification.data
    /\ wpc = "woken"
    /\ step_count = 0
    /\ living_count_history = <<0>>
    /\ input_queue = <<>>
    /\ h_dispatch = 1

\* C40: compute_step is deterministic and independent of the order of
\* iteration.  Whatever the order in which the living cells are visited, the
\* step installs the same set, the one the counts of the finished map give,
\* and no cell of it has zero living neighbours in the input.
C40_OrderIndependent ==
    [][\A order \in Orders(living_cells) :
         SyncStepInOrder(order) =>
            /\ living_cells' = compute_step(living_cells)
            /\ \A c \in living_cells' : LiveNeighbours(c, living_cells) >= 1
      ]_vars

\* The blinker was stepped and stands upright.
C40_Witness ==
    /\ step_count = 1
    /\ living_cells = {<<1, 0>>, <<1, 1>>, <<1, 2>>}
    /\ living_count_history = <<0, 3>>

====
